---- MODULE Spec2Model ----
(***************************************************************************)
(* Order placement and payment reconciliation of the craft marketplace     *)
(* backend: the handlers of routes/orders.js (create, status, cancel) and  *)
(* of the payment routes (PayHere webhook, confirm), over the Product,     *)
(* Order and Payment collections with their Mongoose schemas.              *)
(*                                                                         *)
(* One action is one HTTP request handled to completion.  Each action      *)
(* records the request (req), the response (res) and the collections as    *)
(* they were when the request arrived (pre).  A second specification runs  *)
(* two order placements concurrently, one awaited database call at a time  *)
(* (inflight).                                                             *)
(***************************************************************************)
EXTENDS Integers, Sequences, FiniteSets, TLC

VARIABLES products, orders, payments, req, res, pre, inflight,
          users, tokens, minted, clock, spent, registering

vars == <<products, orders, payments, req, res, pre, inflight,
          users, tokens, minted, clock, spent, registering>>

\* The state of the account routes: the User and Token collections, the
\* number of token strings generated so far, the time, the token strings a
\* verification or reset has succeeded with, and the registrations in
\* flight of the concurrent specification.
authVars == <<users, tokens, minted, clock, spent, registering>>

\* The state of the order and payment routes.
orderVars == <<products, orders, payments, inflight>>

(***************************************************************************)
(* Bounds of the model.                                                    *)
(***************************************************************************)
MaxOrders == 1      \* orders ever persisted
MaxPayments == 2    \* payment records ever persisted
MaxItems == 2       \* line items of one createOrder request
MaxStock == 2       \* stock of every product in the initial catalogue
MaxUsers == 1       \* users ever registered
MaxTokens == 2      \* token strings ever generated
MaxTicks == 2       \* times the clock is advanced

(***************************************************************************)
(* Identifiers.  An id that does not cast to an ObjectId makes             *)
(* Model.findById reject with a CastError.                                 *)
(***************************************************************************)
ProductIds == {"p1", "p2", "p3"}
MissingProductId == "p9"
MalformedId == "not-an-object-id"
ProductRefs == ProductIds \cup {MissingProductId, MalformedId}

IsObjectId(id) == id # MalformedId

OrderIdOf(n) == "o" \o ToString(n)

NoUser == "none"
Absent == "absent"
\* The value of a Number path that holds no number (undefined, NaN); every
\* amount of the model is positive.
NaN == 0 - 1

Quantities == {-1, 2, 3}

\* The line items of a request: every quantity of the products in stock, and
\* one quantity of the references the validation loop refuses before it
\* reads the quantity.
LineItems ==
    [product : {"p1", "p2"}, quantity : Quantities]
    \cup [product : {"p3", MissingProductId, MalformedId}, quantity : {2}]

Item(p, q) == [product |-> p, quantity |-> q]

RECURSIVE SeqsUpTo(_, _)
SeqsUpTo(S, n) ==
    IF n = 0 THEN {<<>>}
    ELSE LET shorter == SeqsUpTo(S, n - 1)
         IN  shorter \cup {Append(s, x) : s \in {t \in shorter : Len(t) = n - 1}, x \in S}

(***************************************************************************)
(* Principals, as the authentication middleware attaches them to a         *)
(* request.                                                                *)
(***************************************************************************)
Anonymous == [id |-> NoUser, role |-> "anonymous"]
Callers ==
    {[id |-> "u1", role |-> "user"], [id |-> "u2", role |-> "user"],
     [id |-> "a1", role |-> "admin"], Anonymous}

\* authenticateToken lets a request through when it carries a principal.
authenticateToken(caller) == caller # Anonymous

\* authorizeRoles(...roles) lets a request through when the principal has
\* one of the roles.
authorizeRoles(caller, roles) == caller.role \in roles

\* req.user as the middleware of a route leaves it: the principal's id when
\* authenticateToken is among the middleware, undefined when it is not.
ReqUser(caller, middleware) ==
    IF "authenticateToken" \in middleware THEN caller.id ELSE NoUser

(***************************************************************************)
(* Schemas.                                                                *)
(***************************************************************************)
OrderStatusEnum == {"pending", "confirmed", "shipped", "delivered", "cancelled", "returned"}
PaymentMethodEnum == {"card", "cash_on_delivery", "bank_transfer"}
PaymentStatusEnum == {"pending", "paid", "failed", "refunded"}

\* Order.validate(): required paths present, status within its enum.
OrderValid(doc) ==
    /\ doc.totalAmount # NaN
    /\ doc.shippingAddress # Absent
    /\ doc.status \in OrderStatusEnum

\* Payment.validate(): required paths present, method and status within
\* their enums.
PaymentValid(doc) ==
    /\ doc.order # Absent
    /\ doc.amount # NaN
    /\ doc.method \in PaymentMethodEnum
    /\ doc.status \in PaymentStatusEnum

(***************************************************************************)
(* Collections.                                                            *)
(***************************************************************************)
Snapshot ==
    [products |-> products, orders |-> orders, payments |-> payments,
     users |-> users, tokens |-> tokens, spent |-> spent]

Idle == [op |-> "none"]
NoResponse == [status |-> 0, error |-> "none"]

OrderIndex(os, id) == {i \in 1..Len(os) : os[i].id = id}

\* Order.findById(id) on a well-formed id: the document, or null.
OrderExists(os, id) == OrderIndex(os, id) # {}
FindOrder(os, id) == os[CHOOSE i \in OrderIndex(os, id) : TRUE]
\* order.save() of a loaded document.
SaveOrder(os, doc) == [i \in 1..Len(os) |-> IF os[i].id = doc.id THEN doc ELSE os[i]]

\* A save that keeps one record per order and transaction id.
SavePaymentOncePerTransaction(ps, doc) ==
    IF \E i \in 1..Len(ps) : ps[i].order = doc.order /\ ps[i].transactionId = doc.transactionId
    THEN ps
    ELSE Append(ps, doc)

\* payment.save() of a new document: one more record in the collection.
SavePayment(ps, doc) == Append(ps, doc)

\* The ids a request may name: those of the persisted orders, the next one
\* (well-formed, no such order) and a malformed one.
RequestOrderIds == {OrderIdOf(i) : i \in 1..(Len(orders) + 1)} \cup {MalformedId}

\* The two order placements of the concurrent specification, and a handler
\* that has not been entered.
Racers == {"r1", "r2"}
NotStarted ==
    [pc |-> "idle", items |-> <<>>, i |-> 0, seen |-> <<>>, order |-> Absent,
     response |-> NoResponse]

\* A register handler that has not been entered.
NoBody == [name |-> Absent, email |-> Absent, password |-> Absent, role |-> Absent]
NotRegistering == [pc |-> "idle", body |-> NoBody, user |-> Absent, response |-> NoResponse]

Init ==
    /\ products = [p \in ProductIds |-> [stock |-> MaxStock, isActive |-> p # "p3"]]
    /\ orders = <<>>
    /\ payments = <<>>
    /\ req = Idle
    /\ res = NoResponse
    /\ users = <<>>
    /\ tokens = {}
    /\ minted = 0
    /\ clock = [now |-> 0, ticks |-> 0]
    /\ spent = {}
    /\ registering = [r \in Racers |-> NotRegistering]
    /\ pre = [products |-> products, orders |-> orders, payments |-> payments,
              users |-> users, tokens |-> tokens, spent |-> spent]
    /\ inflight = [r \in Racers |-> NotStarted]

\* The response has gone out; the server waits for the next request.
AwaitRequest ==
    /\ req # Idle
    /\ req' = Idle
    /\ res' = NoResponse
    /\ pre' = Snapshot
    /\ UNCHANGED <<products, orders, payments, inflight, authVars>>

Respond(status, error) == res' = [status |-> status, error |-> error]

(***************************************************************************)
(* POST /api/orders                                                        *)
(***************************************************************************)
\* The validation loop: the outcome at the first line item that stops it.
RECURSIVE ValidateItems(_, _, _)
ValidateItems(prods, items, i) ==
    IF i > Len(items) THEN "ok"
    ELSE LET item == items[i] IN
         IF ~IsObjectId(item.product) THEN "CastError"
         ELSE IF item.product \notin DOMAIN prods THEN "not found"
         ELSE IF ~prods[item.product].isActive THEN "is not available"
         ELSE IF prods[item.product].stock < item.quantity THEN "Insufficient stock"
         ELSE ValidateItems(prods, items, i + 1)

\* A stock loop that writes back the stock read during validation less the
\* quantity, instead of incrementing in place.
DecrementStockFromRead(prods, items, i) ==
    [p \in DOMAIN prods |->
        LET at == {j \in i..Len(items) : items[j].product = p}
            last == CHOOSE j \in at : \A k \in at : k <= j
        IN  IF at = {} THEN prods[p]
            ELSE [prods[p] EXCEPT !.stock = @ - items[last].quantity]]

\* The stock loop: Product.findByIdAndUpdate(id, {$inc: {stock: -quantity}})
\* for each line item in turn.
RECURSIVE DecrementStock(_, _, _)
DecrementStock(prods, items, i) ==
    IF i > Len(items) THEN prods
    ELSE LET item == items[i]
             after == [prods EXCEPT ![item.product].stock = @ - item.quantity]
         IN  DecrementStock(after, items, i + 1)

NewOrderDoc(body, user) ==
    [id |-> OrderIdOf(Len(orders) + 1),
     user |-> user,
     products |-> body.products,
     totalAmount |-> body.totalAmount,
     shippingAddress |-> body.shippingAddress,
     status |-> "pending",
     trackingInfo |-> Absent]

NewPendingPayment(order, body) ==
    [order |-> order.id,
     amount |-> body.totalAmount,
     method |-> "pending",
     status |-> "pending",
     transactionId |-> Absent]

\* router.post('/', handler): the route has no middleware.
createOrderMiddleware == {}

\* A handler that runs its three writes in one transaction: when the
\* payment record is refused, the order and the stock are rolled back.
CreateOrderInTransaction(body, caller) ==
    /\ req = Idle
    /\ Len(orders) < MaxOrders
    /\ req' = [op |-> "createOrder", body |-> body, caller |-> caller]
    /\ pre' = Snapshot
    /\ LET user == ReqUser(caller, createOrderMiddleware)
           checked == ValidateItems(products, body.products, 1)
           order == NewOrderDoc(body, user)
           payment == NewPendingPayment(order, body)
           guestWithoutContact ==
               user = NoUser /\ (body.customerName = Absent \/ body.customerEmail = Absent
                                    \/ body.customerPhone = Absent)
       IN
       IF Len(body.products) = 0
       THEN /\ Respond(400, "Products are required")
            /\ UNCHANGED <<products, orders, payments>>
       ELSE IF body.shippingAddress = Absent
       THEN /\ Respond(400, "Shipping address is required")
            /\ UNCHANGED <<products, orders, payments>>
       ELSE IF checked # "ok" \/ guestWithoutContact
       THEN /\ Respond(IF checked = "CastError" THEN 500 ELSE 400, checked)
            /\ UNCHANGED <<products, orders, payments>>
       ELSE IF OrderValid(order) /\ PaymentValid(payment)
       THEN /\ orders' = Append(orders, order)
            /\ products' = DecrementStock(products, body.products, 1)
            /\ payments' = SavePayment(payments, payment)
            /\ Respond(201, "none")
       ELSE /\ Respond(500, "Failed to create order")
            /\ UNCHANGED <<products, orders, payments>>

CreateOrder(body, caller) ==
    /\ req = Idle
    /\ Len(orders) < MaxOrders
    /\ req' = [op |-> "createOrder", body |-> body, caller |-> caller]
    /\ pre' = Snapshot
    /\ LET user == ReqUser(caller, createOrderMiddleware)
           checked == ValidateItems(products, body.products, 1)
           order == NewOrderDoc(body, user)
           payment == NewPendingPayment(order, body)
       IN
       IF Len(body.products) = 0
       THEN /\ Respond(400, "Products are required")
            /\ UNCHANGED <<products, orders, payments>>
       ELSE IF body.shippingAddress = Absent
       THEN /\ Respond(400, "Shipping address is required")
            /\ UNCHANGED <<products, orders, payments>>
       ELSE IF checked = "CastError"
       THEN /\ Respond(500, "Failed to create order")
            /\ UNCHANGED <<products, orders, payments>>
       ELSE IF checked # "ok"
       THEN /\ Respond(400, checked)
            /\ UNCHANGED <<products, orders, payments>>
       ELSE IF user = NoUser /\ (body.customerName = Absent \/ body.customerEmail = Absent
                                    \/ body.customerPhone = Absent)
       THEN /\ Respond(400, "Customer information is required for guest orders")
            /\ UNCHANGED <<products, orders, payments>>
       ELSE IF ~OrderValid(order)
       THEN /\ Respond(500, "Failed to create order")
            /\ UNCHANGED <<products, orders, payments>>
       ELSE /\ orders' = Append(orders, order)
            /\ products' = DecrementStock(products, body.products, 1)
            /\ IF PaymentValid(payment)
               THEN /\ payments' = SavePayment(payments, payment)
                    /\ Respond(201, "none")
               ELSE /\ payments' = payments
                    /\ Respond(500, "Failed to create order")

\* Request bodies: the contact and envelope fields present, or one of them
\* left out.
Envelopes ==
    {[shippingAddress |-> "addr", totalAmount |-> 100, customerName |-> "n",
      customerEmail |-> "e", customerPhone |-> "t"],
     [shippingAddress |-> Absent, totalAmount |-> 100, customerName |-> "n",
      customerEmail |-> "e", customerPhone |-> "t"],
     [shippingAddress |-> "addr", totalAmount |-> NaN, customerName |-> "n",
      customerEmail |-> "e", customerPhone |-> "t"],
     [shippingAddress |-> "addr", totalAmount |-> 100, customerName |-> "n",
      customerEmail |-> "e", customerPhone |-> Absent]}

Body(items, e) ==
    [products |-> items, shippingAddress |-> e.shippingAddress,
     totalAmount |-> e.totalAmount, customerName |-> e.customerName,
     customerEmail |-> e.customerEmail, customerPhone |-> e.customerPhone]

CompleteEnvelope ==
    [shippingAddress |-> "addr", totalAmount |-> 100, customerName |-> "n",
     customerEmail |-> "e", customerPhone |-> "t"]

\* Every list of up to MaxItems line items in a complete envelope, and every
\* envelope around the lists of at most one line item.
OrderBodies ==
    {Body(items, CompleteEnvelope) : items \in SeqsUpTo(LineItems, MaxItems)}
    \cup {Body(items, e) : items \in SeqsUpTo(LineItems, 1), e \in Envelopes}

\* The requests of the whole flow: two products, the same product twice, an
\* inactive product, each with every envelope.
SampleItemLists ==
    {<<Item("p2", 1), Item("p1", 1)>>,
     <<Item("p1", 2), Item("p1", 2)>>,
     <<Item("p3", 1)>>}

SampleBodies == {Body(items, e) : items \in SampleItemLists, e \in Envelopes}

\* Who places orders: a logged-in user, who sends a token, and a guest.
OrderCallers == {[id |-> "u1", role |-> "user"], Anonymous}

(***************************************************************************)
(* Strings are sequences of characters.  crypto's MD5 hex digest is        *)
(* modelled as a collision-free function into lowercase hexadecimal        *)
(* strings: the hexadecimal encoding of the bytes it is given.             *)
(***************************************************************************)
HexByte ==
    [c \in {"M", "O", "L", "K", "R", "B", "T", "k", "0", "1", "2", "5", "6"} |->
        CASE c = "M" -> <<"4", "d">>
          [] c = "O" -> <<"4", "f">>
          [] c = "L" -> <<"4", "c">>
          [] c = "K" -> <<"4", "b">>
          [] c = "R" -> <<"5", "2">>
          [] c = "B" -> <<"4", "2">>
          [] c = "T" -> <<"5", "4">>
          [] c = "k" -> <<"6", "b">>
          [] c = "0" -> <<"3", "0">>
          [] c = "1" -> <<"3", "1">>
          [] c = "2" -> <<"3", "2">>
          [] c = "5" -> <<"3", "5">>
          [] c = "6" -> <<"3", "6">>]

\* crypto.createHash('md5').update(s).digest('hex')
Md5Hex(s) == [i \in 1..(2 * Len(s)) |-> HexByte[s[(i + 1) \div 2]][((i + 1) % 2) + 1]]

UpperOf ==
    [c \in {"a", "b", "c", "d", "e", "f", "k"} |->
        CASE c = "a" -> "A" [] c = "b" -> "B" [] c = "c" -> "C" [] c = "d" -> "D"
          [] c = "e" -> "E" [] c = "f" -> "F" [] c = "k" -> "K"]

\* String.prototype.toUpperCase
ToUpperCase(s) == [i \in 1..Len(s) |-> IF s[i] \in DOMAIN UpperOf THEN UpperOf[s[i]] ELSE s[i]]

DigitValue == [c \in {"0", "1", "2", "5", "6"} |->
                 CASE c = "0" -> 0 [] c = "1" -> 1 [] c = "2" -> 2 [] c = "5" -> 5 [] c = "6" -> 6]

\* Number(s) of a string: its value when it is a decimal numeral, else NaN.
RECURSIVE DecimalValue(_, _)
DecimalValue(s, n) == IF n = 0 THEN 0 ELSE 10 * DecimalValue(s, n - 1) + DigitValue[s[n]]
Number(s) ==
    IF \A i \in 1..Len(s) : s[i] \in DOMAIN DigitValue
    THEN DecimalValue(s, Len(s))
    ELSE NaN

\* process.env.PAYHERE_SECRET_KEY
merchantSecret == <<"k">>

(***************************************************************************)
(* POST /api/payments/payhere-webhook                                      *)
(***************************************************************************)
secretMd5Upper == ToUpperCase(Md5Hex(merchantSecret))

\* A signature over the secret itself instead of its digest.
RawSecretMd5sig(n) ==
    ToUpperCase(Md5Hex(n.merchant_id \o n.order_id \o n.payhere_amount
                       \o n.payhere_currency \o n.status_code \o merchantSecret))

expectedMd5sig(n) ==
    ToUpperCase(Md5Hex(n.merchant_id \o n.order_id \o n.payhere_amount
                       \o n.payhere_currency \o n.status_code \o secretMd5Upper))

\* A payment record with the status names of the gateway rather than those
\* of the Payment schema.
WebhookPaymentGatewayStatus(order, n) ==
    [order |-> order.id,
     amount |-> Number(n.payhere_amount),
     method |-> "card",
     status |-> IF n.status_code = <<"2">> THEN "completed" ELSE "failed",
     transactionId |-> n.payment_id]

WebhookPayment(order, n) ==
    [order |-> order.id,
     amount |-> Number(n.payhere_amount),
     method |-> "card",
     status |-> IF n.status_code = <<"2">> THEN "paid" ELSE "failed",
     transactionId |-> n.payment_id]

Webhook(n) ==
    /\ req = Idle
    /\ Len(payments) < MaxPayments
    /\ req' = [op |-> "webhook", body |-> n]
    /\ pre' = Snapshot
    /\ UNCHANGED products
    /\ IF n.md5sig # expectedMd5sig(n)
       THEN /\ Respond(400, "Invalid signature")
            /\ UNCHANGED <<orders, payments>>
       ELSE IF ~IsObjectId(n.custom_1)
       THEN /\ Respond(500, "Webhook processing failed")
            /\ UNCHANGED <<orders, payments>>
       ELSE IF ~OrderExists(orders, n.custom_1)
       THEN /\ Respond(404, "Order not found")
            /\ UNCHANGED <<orders, payments>>
       ELSE LET order == FindOrder(orders, n.custom_1)
                payment == WebhookPayment(order, n)
                updated == [order EXCEPT !.status = IF n.status_code = <<"2">>
                                                    THEN "confirmed"
                                                    ELSE "payment_failed"]
            IN  IF ~PaymentValid(payment)
                THEN /\ Respond(500, "Webhook processing failed")
                     /\ UNCHANGED <<orders, payments>>
                ELSE /\ payments' = SavePayment(payments, payment)
                     /\ IF OrderValid(updated)
                        THEN /\ orders' = SaveOrder(orders, updated)
                             /\ Respond(200, "none")
                        ELSE /\ orders' = orders
                             /\ Respond(500, "Webhook processing failed")

\* The notifications: the gateway's fields, with a signature that is the
\* expected one for these fields or for another status code, the digest
\* before it is upper-cased, the digest over the raw secret, the expected
\* one with its last character changed, or empty.
NotificationFields ==
    [merchant_id : {<<"M", "1">>}, order_id : {<<"O", "1">>},
     payment_id : {"T1"}, payhere_amount : {<<"5", "0">>},
     payhere_currency : {<<"L", "K", "R">>}, status_code : {<<"2">>, <<"1">>},
     custom_1 : RequestOrderIds]

Mutated(sig) == [sig EXCEPT ![Len(sig)] = IF @ = "0" THEN "1" ELSE "0"]

Signatures(n) ==
    {expectedMd5sig(n),
     expectedMd5sig([n EXCEPT !.status_code = IF @ = <<"2">> THEN <<"1">> ELSE <<"2">>]),
     Md5Hex(n.merchant_id \o n.order_id \o n.payhere_amount
            \o n.payhere_currency \o n.status_code \o secretMd5Upper),
     RawSecretMd5sig(n),
     Mutated(expectedMd5sig(n)),
     <<>>}

Signed(n, sig) ==
    [merchant_id |-> n.merchant_id, order_id |-> n.order_id, payment_id |-> n.payment_id,
     payhere_amount |-> n.payhere_amount, payhere_currency |-> n.payhere_currency,
     status_code |-> n.status_code, custom_1 |-> n.custom_1, md5sig |-> sig]

(***************************************************************************)
(* POST /api/payments/confirm                                              *)
(***************************************************************************)
\* A confirmation that leaves a delivered or cancelled order as it is.
ConfirmedOrderUnlessTerminal(order, paymentId) ==
    IF order.status \in {"delivered", "cancelled"} THEN order
    ELSE [order EXCEPT !.status = "confirmed"]

\* order.status = 'confirmed'; paymentStatus and paymentId are no paths of
\* the Order schema and are not stored.
ConfirmedOrder(order, paymentId) == [order EXCEPT !.status = "confirmed"]

Confirm(orderId, paymentId, status) ==
    /\ req = Idle
    /\ req' = [op |-> "confirm", orderId |-> orderId, paymentId |-> paymentId,
               status |-> status]
    /\ pre' = Snapshot
    /\ UNCHANGED <<products, payments>>
    /\ IF ~IsObjectId(orderId)
       THEN /\ Respond(500, "Payment confirmation failed")
            /\ UNCHANGED orders
       ELSE IF ~OrderExists(orders, orderId)
       THEN /\ Respond(404, "Order not found")
            /\ UNCHANGED orders
       ELSE IF status = "completed"
       THEN LET updated == ConfirmedOrder(FindOrder(orders, orderId), paymentId)
            IN  IF OrderValid(updated)
                THEN /\ orders' = SaveOrder(orders, updated)
                     /\ Respond(200, "none")
                ELSE /\ orders' = orders
                     /\ Respond(500, "Payment confirmation failed")
       ELSE /\ Respond(200, "Payment not completed")
            /\ UNCHANGED orders

(***************************************************************************)
(* PATCH /api/orders/:id/status                                            *)
(***************************************************************************)
validStatuses == {"pending", "confirmed", "shipped", "delivered", "cancelled", "returned"}

\* An assignment that leaves the status of a delivered or cancelled order
\* as it is.
StatusUpdateKeepTerminal(order, status, trackingInfo) ==
    [order EXCEPT
       !.status = IF @ \in {"delivered", "cancelled"} THEN @ ELSE status,
       !.trackingInfo = IF status = "shipped" /\ trackingInfo # Absent THEN trackingInfo ELSE @]

\* order.status = status, and order.trackingInfo when shipping.
StatusUpdate(order, status, trackingInfo) ==
    [order EXCEPT
       !.status = status,
       !.trackingInfo = IF status = "shipped" /\ trackingInfo # Absent THEN trackingInfo ELSE @]

UpdateStatus(caller, id, status, trackingInfo) ==
    /\ req = Idle
    /\ req' = [op |-> "updateStatus", caller |-> caller, id |-> id, status |-> status,
               trackingInfo |-> trackingInfo]
    /\ pre' = Snapshot
    /\ UNCHANGED <<products, payments>>
    /\ IF ~authenticateToken(caller)
       THEN /\ Respond(401, "Access token required")
            /\ UNCHANGED orders
       ELSE IF ~authorizeRoles(caller, {"admin"})
       THEN /\ Respond(403, "Insufficient permissions")
            /\ UNCHANGED orders
       ELSE IF status \notin validStatuses
       THEN /\ Respond(400, "Invalid status")
            /\ UNCHANGED orders
       ELSE IF ~IsObjectId(id)
       THEN /\ Respond(500, "Failed to update order status")
            /\ UNCHANGED orders
       ELSE IF ~OrderExists(orders, id)
       THEN /\ Respond(404, "Order not found")
            /\ UNCHANGED orders
       ELSE LET order == FindOrder(orders, id)
                updated == StatusUpdate(order, status, trackingInfo)
            IN  IF OrderValid(updated)
                THEN /\ orders' = SaveOrder(orders, updated)
                     /\ Respond(200, "none")
                ELSE /\ orders' = orders
                     /\ Respond(500, "Failed to update order status")

\* The statuses a request may ask for: those of the handler's list, the
\* status the webhook assigns to an unpaid order, and a word that is no
\* status at all.
RequestedStatuses == validStatuses \cup {"payment_failed", "archived"}

(***************************************************************************)
(* PATCH /api/orders/:id/cancel                                            *)
(***************************************************************************)
\* The restore loop: Product.findByIdAndUpdate(id, {$inc: {stock: quantity}})
\* for each line item of the order in turn.
RECURSIVE RestoreStock(_, _, _)
RestoreStock(prods, items, i) ==
    IF i > Len(items) THEN prods
    ELSE LET item == items[i]
             after == [prods EXCEPT ![item.product].stock = @ + item.quantity]
         IN  RestoreStock(after, items, i + 1)

\* Status checks that let a delivered order through.
CancelRefusalCancelledOnly(order) ==
    IF order.status = "cancelled" THEN "Order is already cancelled" ELSE "none"

\* The two status checks that refuse a cancellation.
CancelRefusal(order) ==
    IF order.status = "cancelled" THEN "Order is already cancelled"
    ELSE IF order.status = "delivered" THEN "Cannot cancel delivered order"
    ELSE "none"

\* A handler that tests the restore condition on the status the order had
\* before it was cancelled.
CancelOrderRestoring(caller, id) ==
    /\ req = Idle
    /\ req' = [op |-> "cancelOrder", caller |-> caller, id |-> id]
    /\ pre' = Snapshot
    /\ UNCHANGED payments
    /\ IF ~authenticateToken(caller)
       THEN /\ Respond(401, "Access token required")
            /\ UNCHANGED <<orders, products>>
       ELSE IF ~IsObjectId(id)
       THEN /\ Respond(500, "Failed to cancel order")
            /\ UNCHANGED <<orders, products>>
       ELSE IF ~OrderExists(orders, id)
       THEN /\ Respond(404, "Order not found")
            /\ UNCHANGED <<orders, products>>
       ELSE LET order == FindOrder(orders, id)
                saved == [order EXCEPT !.status = "cancelled"]
            IN  IF caller.role # "admin" /\ order.user # NoUser /\ order.user # caller.id
                THEN /\ Respond(403, "Not authorized to cancel this order")
                     /\ UNCHANGED <<orders, products>>
                ELSE IF CancelRefusal(order) # "none"
                THEN /\ Respond(400, CancelRefusal(order))
                     /\ UNCHANGED <<orders, products>>
                ELSE /\ orders' = SaveOrder(orders, saved)
                     /\ products' = IF order.status \in {"confirmed", "shipped"}
                                    THEN RestoreStock(products, saved.products, 1)
                                    ELSE products
                     /\ Respond(200, "none")

CancelOrder(caller, id) ==
    /\ req = Idle
    /\ req' = [op |-> "cancelOrder", caller |-> caller, id |-> id]
    /\ pre' = Snapshot
    /\ UNCHANGED payments
    /\ IF ~authenticateToken(caller)
       THEN /\ Respond(401, "Access token required")
            /\ UNCHANGED <<orders, products>>
       ELSE IF ~IsObjectId(id)
       THEN /\ Respond(500, "Failed to cancel order")
            /\ UNCHANGED <<orders, products>>
       ELSE IF ~OrderExists(orders, id)
       THEN /\ Respond(404, "Order not found")
            /\ UNCHANGED <<orders, products>>
       ELSE LET order == FindOrder(orders, id)
                \* order.status = 'cancelled'; await order.save()
                saved == [order EXCEPT !.status = "cancelled"]
            IN  IF caller.role # "admin" /\ order.user # NoUser /\ order.user # caller.id
                THEN /\ Respond(403, "Not authorized to cancel this order")
                     /\ UNCHANGED <<orders, products>>
                ELSE IF CancelRefusal(order) # "none"
                THEN /\ Respond(400, CancelRefusal(order))
                     /\ UNCHANGED <<orders, products>>
                ELSE /\ orders' = SaveOrder(orders, saved)
                     \* the condition reads the document that was just saved
                     /\ products' = IF saved.status \in {"confirmed", "shipped"}
                                    THEN RestoreStock(products, saved.products, 1)
                                    ELSE products
                     /\ Respond(200, "none")

(***************************************************************************)
(* Requests.  The server handles one request at a time.                    *)
(***************************************************************************)
\* Order placement over every request body within the bounds.
CreateOrderRequest ==
    /\ req = Idle
    /\ \E body \in OrderBodies, caller \in OrderCallers : CreateOrder(body, caller)
    /\ UNCHANGED <<inflight, authVars>>

\* Order placement over the sample bodies.
CreateSampleOrderRequest ==
    /\ req = Idle
    /\ \E body \in SampleBodies, caller \in OrderCallers : CreateOrder(body, caller)
    /\ UNCHANGED <<inflight, authVars>>

WebhookRequest ==
    /\ req = Idle
    /\ \E n \in NotificationFields : \E sig \in Signatures(n) : Webhook(Signed(n, sig))
    /\ UNCHANGED <<inflight, authVars>>

ConfirmRequest ==
    /\ req = Idle
    /\ \E id \in RequestOrderIds, status \in {"completed", "failed"} :
           Confirm(id, "T1", status)
    /\ UNCHANGED <<inflight, authVars>>

UpdateStatusRequest ==
    /\ req = Idle
    /\ \E caller \in Callers \ {[id |-> "u2", role |-> "user"]}, id \in RequestOrderIds,
          status \in RequestedStatuses, trackingInfo \in {Absent, "trk"} :
           /\ (trackingInfo # Absent => status = "shipped")
           /\ UpdateStatus(caller, id, status, trackingInfo)
    /\ UNCHANGED <<inflight, authVars>>

CancelOrderRequest ==
    /\ req = Idle
    /\ \E caller \in Callers, id \in RequestOrderIds : CancelOrder(caller, id)
    /\ UNCHANGED <<inflight, authVars>>

(***************************************************************************)
(* POST /api/orders, one awaited call at a time.  Node runs a handler      *)
(* without interruption up to its next await; between the awaited calls of *)
(* one request the calls of another may complete.  Each database call is   *)
(* atomic on its document.                                                 *)
(***************************************************************************)
RaceItems == [product : {"p1", "p2"}, quantity : {1, 2}]
RaceItemLists == SeqsUpTo(RaceItems, MaxItems)

RaceBody(r) == Body(inflight[r].items, CompleteEnvelope)

Finish(r, status, error) ==
    inflight' = [inflight EXCEPT ![r].pc = "done",
                                 ![r].response = [status |-> status, error |-> error]]

\* The request arrives: the checks before the first await, and the first
\* Product.findById is issued.
RaceArrive(r, items) ==
    /\ inflight[r].pc = "idle"
    /\ IF Len(items) = 0
       THEN inflight' = [inflight EXCEPT
                            ![r].pc = "done", ![r].items = items,
                            ![r].response = [status |-> 400, error |-> "Products are required"]]
       ELSE inflight' = [inflight EXCEPT ![r].pc = "validate", ![r].items = items, ![r].i = 1]
    /\ UNCHANGED <<products, orders, payments, req, res, pre, authVars>>

\* await Product.findById(item.product) returns and the line item is
\* checked against the document read; after the last line item the handler
\* runs on to order.save().
RaceFindProduct(r) ==
    /\ inflight[r].pc = "validate"
    /\ LET me == inflight[r]
           item == me.items[me.i]
           checked == ValidateItems(products, <<item>>, 1)
       IN  IF checked = "CastError"
           THEN Finish(r, 500, "Failed to create order")
           ELSE IF checked # "ok"
           THEN Finish(r, 400, checked)
           ELSE inflight' = [inflight EXCEPT
                                ![r].seen = Append(@, products[item.product].stock),
                                ![r].i = IF me.i = Len(me.items) THEN 0 ELSE @ + 1,
                                ![r].pc = IF me.i = Len(me.items) THEN "saveOrder" ELSE @]
    /\ UNCHANGED <<products, orders, payments, req, res, pre, authVars>>

\* await order.save() returns; the first findByIdAndUpdate is issued.
RaceSaveOrder(r) ==
    /\ inflight[r].pc = "saveOrder"
    /\ LET order == NewOrderDoc(RaceBody(r), ReqUser(Anonymous, createOrderMiddleware))
       IN  IF OrderValid(order)
           THEN /\ orders' = Append(orders, order)
                /\ inflight' = [inflight EXCEPT ![r].pc = "decrement", ![r].i = 1,
                                                ![r].order = order.id]
           ELSE /\ orders' = orders
                /\ Finish(r, 500, "Failed to create order")
    /\ UNCHANGED <<products, payments, req, res, pre, authVars>>

\* A stock write that stores the stock read during validation less the
\* quantity.
RaceWriteBackStock(r) ==
    /\ inflight[r].pc = "decrement"
    /\ LET me == inflight[r]
           item == me.items[me.i]
       IN  /\ products' = [products EXCEPT ![item.product].stock = me.seen[me.i] - item.quantity]
           /\ inflight' = [inflight EXCEPT
                              ![r].i = IF me.i = Len(me.items) THEN 0 ELSE @ + 1,
                              ![r].pc = IF me.i = Len(me.items) THEN "savePayment" ELSE @]
    /\ UNCHANGED <<orders, payments, req, res, pre, authVars>>

\* await Product.findByIdAndUpdate(item.product, {$inc: {stock: -quantity}})
\* returns; after the last line item payment.save() is issued.
RaceDecrementStock(r) ==
    /\ inflight[r].pc = "decrement"
    /\ LET me == inflight[r]
           item == me.items[me.i]
       IN  /\ products' = DecrementStock(products, <<item>>, 1)
           /\ inflight' = [inflight EXCEPT
                              ![r].i = IF me.i = Len(me.items) THEN 0 ELSE @ + 1,
                              ![r].pc = IF me.i = Len(me.items) THEN "savePayment" ELSE @]
    /\ UNCHANGED <<orders, payments, req, res, pre, authVars>>

\* await payment.save() returns and the response is sent.
RaceSavePayment(r) ==
    /\ inflight[r].pc = "savePayment"
    /\ LET order == FindOrder(orders, inflight[r].order)
           payment == NewPendingPayment(order, RaceBody(r))
       IN  IF PaymentValid(payment)
           THEN /\ payments' = SavePayment(payments, payment)
                /\ Finish(r, 201, "none")
           ELSE /\ payments' = payments
                /\ Finish(r, 500, "Failed to create order")
    /\ UNCHANGED <<products, orders, req, res, pre, authVars>>

RaceArriveStep == \E r \in Racers, items \in RaceItemLists : RaceArrive(r, items)
RaceFindProductStep == \E r \in Racers : RaceFindProduct(r)
RaceSaveOrderStep == \E r \in Racers : RaceSaveOrder(r)
RaceDecrementStockStep == \E r \in Racers : RaceDecrementStock(r)
RaceSavePaymentStep == \E r \in Racers : RaceSavePayment(r)

(***************************************************************************)
(* Accounts: routes/auth.js and the admin user routes.  Time is counted in *)
(* hours.                                                                  *)
(***************************************************************************)
VerificationHours == 24
ResetHours == 1

Emails == {"a@x", "b@x"}
Passwords == {"pw1", "pw2"}

\* bcrypt.hash(password, 12) and bcrypt.compare(password, hash)
Hash(password) == "bcrypt:" \o password
Compare(password, hash) == hash = Hash(password)

UserIdOf(n) == "usr" \o ToString(n)

UserIndex(us, id) == {i \in 1..Len(us) : us[i].id = id}
EmailIndex(us, email) == {i \in 1..Len(us) : us[i].email = email}

\* User.findOne({ email }): the first document with the email, if any.
UserWithEmail(us, email) == us[CHOOSE i \in EmailIndex(us, email) : \A j \in EmailIndex(us, email) : i <= j]
\* User.findById(id)
UserById(us, id) == us[CHOOSE i \in UserIndex(us, id) : TRUE]
\* user.save() of a new document: the collection takes it as it is, with no
\* constraint across documents.
InsertUser(us, doc) == Append(us, doc)
\* user.save() of a loaded document.
SaveUser(us, doc) == [i \in 1..Len(us) |-> IF us[i].id = doc.id THEN doc ELSE us[i]]

\* Math.random().toString(36).substring(2) + Date.now().toString(36): a
\* string that was not generated before.
TokenString(n) == "t" \o ToString(n)

\* Token.create({ userId, token, type, expiresAt })
NewToken(userId, type, hours) ==
    [token |-> TokenString(minted + 1), userId |-> userId, type |-> type,
     expiresAt |-> clock.now + hours]

\* Token.findOne({ token, type, expiresAt: { $gt: new Date() } })
FindToken(ts, token, type) ==
    {t \in ts : t.token = token /\ t.type = type /\ t.expiresAt > clock.now}

\* A deletion that leaves the token in the collection.
KeepToken(ts, tokenDoc) == ts

\* Token.findByIdAndDelete(tokenDoc._id)
DeleteToken(ts, tokenDoc) == ts \ {tokenDoc}

\* Token.deleteMany({ userId, type })
DeleteTokensOf(ts, userId, type) == {t \in ts : ~(t.userId = userId /\ t.type = type)}

\* A user document that starts out active.
NewUserActive(body) ==
    [id |-> UserIdOf(Len(users) + 1), email |-> body.email, password |-> Hash(body.password),
     role |-> body.role, isActive |-> TRUE]

\* new User({ ..., isActive: false })
NewUser(body) ==
    [id |-> UserIdOf(Len(users) + 1), email |-> body.email, password |-> Hash(body.password),
     role |-> body.role, isActive |-> FALSE]

\* Role checks that refuse the role admin and nothing else.
RoleRefusalAdminOnly(role) ==
    IF role = "admin" THEN [status |-> 403, error |-> "Cannot register as admin"]
    ELSE NoResponse

\* The two role checks of register; NoResponse when the role passes.
RoleRefusal(role) ==
    IF role = "admin" THEN [status |-> 403, error |-> "Cannot register as admin"]
    ELSE IF role # "creator" /\ role # "user" THEN [status |-> 400, error |-> "Invalid role"]
    ELSE NoResponse

(***************************************************************************)
(* POST /api/auth/register.  mail tells whether sendEmail goes through.    *)
(***************************************************************************)
\* The request passes the checks of register and creates a user.
RegisterAccepted(body) ==
    /\ body.name # Absent /\ body.email # Absent
    /\ body.password # Absent /\ body.role # Absent
    /\ RoleRefusal(body.role) = NoResponse
    /\ EmailIndex(users, body.email) = {}

Register(body, mail) ==
    /\ req = Idle
    /\ RegisterAccepted(body) => (Len(users) < MaxUsers /\ minted < MaxTokens)
    /\ req' = [op |-> "register", body |-> body, mail |-> mail]
    /\ pre' = Snapshot
    /\ UNCHANGED <<clock, spent>>
    /\ IF body.name = Absent \/ body.email = Absent \/ body.password = Absent
          \/ body.role = Absent
       THEN /\ Respond(400, "All fields are required")
            /\ UNCHANGED <<users, tokens, minted>>
       ELSE IF RoleRefusal(body.role) # NoResponse
       THEN /\ res' = RoleRefusal(body.role)
            /\ UNCHANGED <<users, tokens, minted>>
       ELSE IF ~RegisterAccepted(body)
       THEN /\ Respond(400, "Email already registered")
            /\ UNCHANGED <<users, tokens, minted>>
       ELSE LET user == NewUser(body)
            IN  /\ users' = InsertUser(users, user)
                /\ tokens' = tokens \cup {NewToken(user.id, "email_verification",
                                                   VerificationHours)}
                /\ minted' = minted + 1
                /\ IF mail = "sent"
                   THEN Respond(201, "none")
                   ELSE Respond(500, "Registration failed")

(***************************************************************************)
(* POST /api/auth/login.  Status 200 carries the signed token.             *)
(***************************************************************************)
Login(email, password) ==
    /\ req = Idle
    /\ req' = [op |-> "login", email |-> email, password |-> password]
    /\ pre' = Snapshot
    /\ UNCHANGED <<users, tokens, minted, clock, spent>>
    /\ IF email = Absent \/ password = Absent
       THEN Respond(400, "Email and password are required")
       ELSE IF EmailIndex(users, email) = {}
       THEN Respond(401, "Invalid credentials")
       ELSE IF ~Compare(password, UserWithEmail(users, email).password)
       THEN Respond(401, "Invalid credentials")
       ELSE IF ~UserWithEmail(users, email).isActive
       THEN Respond(403, "Account not activated. Please verify your email.")
       ELSE Respond(200, "none")

(***************************************************************************)
(* GET /api/auth/verify-email/:token                                       *)
(***************************************************************************)
VerifyEmail(token) ==
    /\ req = Idle
    /\ req' = [op |-> "verifyEmail", token |-> token]
    /\ pre' = Snapshot
    /\ UNCHANGED <<minted, clock>>
    /\ LET found == FindToken(tokens, token, "email_verification")
       IN  IF found = {}
           THEN /\ Respond(400, "Invalid or expired verification token")
                /\ UNCHANGED <<users, tokens, spent>>
           ELSE LET tokenDoc == CHOOSE t \in found : TRUE
                IN  IF UserIndex(users, tokenDoc.userId) = {}
                    THEN /\ Respond(404, "User not found")
                         /\ UNCHANGED <<users, tokens, spent>>
                    ELSE LET user == UserById(users, tokenDoc.userId)
                         IN  /\ users' = IF user.isActive THEN users
                                         ELSE SaveUser(users, [user EXCEPT !.isActive = TRUE])
                             /\ tokens' = DeleteToken(tokens, tokenDoc)
                             /\ spent' = spent \cup {token}
                             /\ Respond(200, "none")

(***************************************************************************)
(* POST /api/auth/resend-verification                                      *)
(***************************************************************************)
ResendVerification(email, mail) ==
    /\ req = Idle
    /\ minted < MaxTokens
    /\ req' = [op |-> "resendVerification", email |-> email, mail |-> mail]
    /\ pre' = Snapshot
    /\ UNCHANGED <<users, clock, spent>>
    /\ IF email = Absent
       THEN /\ Respond(400, "Email is required")
            /\ UNCHANGED <<tokens, minted>>
       ELSE IF EmailIndex(users, email) = {}
       THEN /\ Respond(404, "User not found")
            /\ UNCHANGED <<tokens, minted>>
       ELSE IF UserWithEmail(users, email).isActive
       THEN /\ Respond(400, "Email is already verified")
            /\ UNCHANGED <<tokens, minted>>
       ELSE LET user == UserWithEmail(users, email)
            IN  /\ tokens' = DeleteTokensOf(tokens, user.id, "email_verification")
                                \cup {NewToken(user.id, "email_verification",
                                               VerificationHours)}
                /\ minted' = minted + 1
                /\ IF mail = "sent"
                   THEN Respond(200, "none")
                   ELSE Respond(500, "Failed to resend verification email")

(***************************************************************************)
(* POST /api/auth/forgot-password                                          *)
(***************************************************************************)
ResetLinkMessage == "If that email exists, a reset link has been sent"

ForgotPassword(email, mail) ==
    /\ req = Idle
    /\ minted < MaxTokens
    /\ req' = [op |-> "forgotPassword", email |-> email, mail |-> mail]
    /\ pre' = Snapshot
    /\ UNCHANGED <<users, clock, spent>>
    /\ IF email = Absent
       THEN /\ Respond(400, "Email is required")
            /\ UNCHANGED <<tokens, minted>>
       ELSE IF EmailIndex(users, email) = {}
       THEN /\ Respond(200, ResetLinkMessage)
            /\ UNCHANGED <<tokens, minted>>
       ELSE LET user == UserWithEmail(users, email)
            IN  /\ tokens' = DeleteTokensOf(tokens, user.id, "password_reset")
                                \cup {NewToken(user.id, "password_reset", ResetHours)}
                /\ minted' = minted + 1
                /\ IF mail = "sent"
                   THEN Respond(200, ResetLinkMessage)
                   ELSE Respond(500, "Failed to send reset email")

(***************************************************************************)
(* POST /api/auth/reset-password                                           *)
(***************************************************************************)
ResetPassword(token, newPassword) ==
    /\ req = Idle
    /\ req' = [op |-> "resetPassword", token |-> token, newPassword |-> newPassword]
    /\ pre' = Snapshot
    /\ UNCHANGED <<minted, clock>>
    /\ IF token = Absent \/ newPassword = Absent
       THEN /\ Respond(400, "Token and new password are required")
            /\ UNCHANGED <<users, tokens, spent>>
       ELSE LET found == FindToken(tokens, token, "password_reset")
            IN  IF found = {}
                THEN /\ Respond(400, "Invalid or expired reset token")
                     /\ UNCHANGED <<users, tokens, spent>>
                ELSE LET tokenDoc == CHOOSE t \in found : TRUE
                     IN  IF UserIndex(users, tokenDoc.userId) = {}
                         THEN /\ Respond(404, "User not found")
                              /\ UNCHANGED <<users, tokens, spent>>
                         ELSE LET user == UserById(users, tokenDoc.userId)
                              IN  /\ users' = SaveUser(users, [user EXCEPT
                                                                !.password = Hash(newPassword)])
                                  /\ tokens' = DeleteToken(tokens, tokenDoc)
                                  /\ spent' = spent \cup {token}
                                  /\ Respond(200, "none")

(***************************************************************************)
(* PATCH /api/admin/users/:id/toggle-status and /users/:id/status          *)
(***************************************************************************)
\* isActive: the new value for /status, Absent for /toggle-status.
SetUserStatus(caller, id, isActive) ==
    /\ req = Idle
    /\ req' = [op |-> "userStatus", caller |-> caller, id |-> id, isActive |-> isActive]
    /\ pre' = Snapshot
    /\ UNCHANGED <<tokens, minted, clock, spent>>
    /\ IF ~authenticateToken(caller)
       THEN /\ Respond(401, "Access token required")
            /\ UNCHANGED users
       ELSE IF ~authorizeRoles(caller, {"admin"})
       THEN /\ Respond(403, "Insufficient permissions")
            /\ UNCHANGED users
       ELSE IF ~IsObjectId(id)
       THEN /\ Respond(500, "Failed to update user status")
            /\ UNCHANGED users
       ELSE IF UserIndex(users, id) = {}
       THEN /\ Respond(404, "User not found")
            /\ UNCHANGED users
       ELSE LET user == UserById(users, id)
                value == IF isActive = Absent THEN ~user.isActive ELSE isActive = "true"
            IN  /\ users' = SaveUser(users, [user EXCEPT !.isActive = value])
                /\ Respond(200, "none")

(***************************************************************************)
(* Time passes, and the TTL index on Token.expiresAt removes the tokens    *)
(* that have expired.                                                      *)
(***************************************************************************)
Tick(hours) ==
    /\ req = Idle
    /\ clock.ticks < MaxTicks
    /\ clock' = [now |-> clock.now + hours, ticks |-> clock.ticks + 1]
    /\ UNCHANGED <<users, tokens, minted, spent, req, res, pre>>

ExpireTokens ==
    /\ req = Idle
    /\ \E t \in tokens : t.expiresAt <= clock.now
    /\ tokens' = {t \in tokens : t.expiresAt > clock.now}
    /\ UNCHANGED <<users, minted, clock, spent, req, res, pre>>

(***************************************************************************)
(* Account requests.                                                       *)
(***************************************************************************)
\* The bodies of register: one email as a user, the other as a creator,
\* the roles register refuses, and bodies with a field left out.
RegisterBodies ==
    [name : {"n"}, email : {"a@x"}, password : {"pw1"},
     role : {"user", "admin", "moderator"}]
    \cup [name : {"n"}, email : {"b@x"}, password : {"pw1"}, role : {"creator"}]
    \cup [name : {"n", Absent}, email : {"a@x", Absent}, password : {"pw1", Absent},
          role : {"user", Absent}]

Mail == {"sent", "failed"}

PresentedTokens == {TokenString(n) : n \in 1..MaxTokens}

RequestUserIds == {UserIdOf(i) : i \in 1..(Len(users) + 1)} \cup {MalformedId}

RegisterRequest ==
    /\ req = Idle
    /\ \E body \in RegisterBodies, mail \in Mail : Register(body, mail)
    /\ UNCHANGED <<orderVars, registering>>

LoginRequest ==
    /\ req = Idle
    /\ \E email \in Emails \cup {Absent}, password \in Passwords : Login(email, password)
    /\ UNCHANGED <<orderVars, registering>>

VerifyEmailRequest ==
    /\ req = Idle
    /\ \E token \in PresentedTokens : VerifyEmail(token)
    /\ UNCHANGED <<orderVars, registering>>

ResendVerificationRequest ==
    /\ req = Idle
    /\ \E email \in Emails \cup {Absent}, mail \in Mail : ResendVerification(email, mail)
    /\ UNCHANGED <<orderVars, registering>>

ForgotPasswordRequest ==
    /\ req = Idle
    /\ \E email \in Emails \cup {Absent}, mail \in Mail : ForgotPassword(email, mail)
    /\ UNCHANGED <<orderVars, registering>>

ResetPasswordRequest ==
    /\ req = Idle
    /\ \E token \in PresentedTokens, newPassword \in {"pw2", Absent} :
           ResetPassword(token, newPassword)
    /\ UNCHANGED <<orderVars, registering>>

UserStatusRequest ==
    /\ req = Idle
    /\ \E caller \in Callers \ {[id |-> "u2", role |-> "user"]}, id \in RequestUserIds,
          isActive \in {Absent, "true", "false"} :
           SetUserStatus(caller, id, isActive)
    /\ UNCHANGED <<orderVars, registering>>

TimePasses ==
    /\ \E hours \in {ResetHours, VerificationHours} : Tick(hours)
    /\ UNCHANGED <<orderVars, registering>>

TokensExpire ==
    /\ ExpireTokens
    /\ UNCHANGED <<orderVars, registering>>

(***************************************************************************)
(* POST /api/auth/register, one awaited call at a time.                    *)
(***************************************************************************)
RaceRegisterBodies ==
    [name : {"n"}, email : Emails, password : {"pw1"}, role : {"user", "admin"}]

Answer(r, response) ==
    registering' = [registering EXCEPT ![r].pc = "done", ![r].response = response]

\* The request arrives: the field and role checks, and User.findOne is
\* issued.
RegisterArrive(r, body) ==
    /\ registering[r].pc = "idle"
    /\ IF body.name = Absent \/ body.email = Absent \/ body.password = Absent
          \/ body.role = Absent
       THEN registering' = [registering EXCEPT
                               ![r].pc = "done", ![r].body = body,
                               ![r].response = [status |-> 400,
                                                error |-> "All fields are required"]]
       ELSE IF RoleRefusal(body.role) # NoResponse
       THEN registering' = [registering EXCEPT
                               ![r].pc = "done", ![r].body = body,
                               ![r].response = RoleRefusal(body.role)]
       ELSE registering' = [registering EXCEPT ![r].pc = "findOne", ![r].body = body]
    /\ UNCHANGED <<users, tokens, minted, clock, spent, orderVars, req, res, pre>>

\* await User.findOne({ email }) returns; bcrypt.hash is issued.
RegisterFindOne(r) ==
    /\ registering[r].pc = "findOne"
    /\ IF EmailIndex(users, registering[r].body.email) # {}
       THEN Answer(r, [status |-> 400, error |-> "Email already registered"])
       ELSE registering' = [registering EXCEPT ![r].pc = "hash"]
    /\ UNCHANGED <<users, tokens, minted, clock, spent, orderVars, req, res, pre>>

\* await bcrypt.hash returns; user.save() is issued.
RegisterHash(r) ==
    /\ registering[r].pc = "hash"
    /\ registering' = [registering EXCEPT ![r].pc = "saveUser"]
    /\ UNCHANGED <<users, tokens, minted, clock, spent, orderVars, req, res, pre>>

\* await user.save() returns; Token.create is issued.
RegisterSaveUser(r) ==
    /\ registering[r].pc = "saveUser"
    /\ LET user == NewUser(registering[r].body)
       IN  /\ users' = InsertUser(users, user)
           /\ registering' = [registering EXCEPT ![r].pc = "createToken", ![r].user = user.id]
    /\ UNCHANGED <<tokens, minted, clock, spent, orderVars, req, res, pre>>

\* await Token.create returns; sendEmail is issued.
RegisterCreateToken(r) ==
    /\ registering[r].pc = "createToken"
    /\ tokens' = tokens \cup {NewToken(registering[r].user, "email_verification",
                                       VerificationHours)}
    /\ minted' = minted + 1
    /\ registering' = [registering EXCEPT ![r].pc = "sendEmail"]
    /\ UNCHANGED <<users, clock, spent, orderVars, req, res, pre>>

\* await sendEmail returns or throws, and the response is sent.
RegisterSendEmail(r, mail) ==
    /\ registering[r].pc = "sendEmail"
    /\ IF mail = "sent"
       THEN Answer(r, [status |-> 201, error |-> "none"])
       ELSE Answer(r, [status |-> 500, error |-> "Registration failed"])
    /\ UNCHANGED <<users, tokens, minted, clock, spent, orderVars, req, res, pre>>

RegisterArriveStep == \E r \in Racers, body \in RaceRegisterBodies : RegisterArrive(r, body)
RegisterFindOneStep == \E r \in Racers : RegisterFindOne(r)
RegisterHashStep == \E r \in Racers : RegisterHash(r)
RegisterSaveUserStep == \E r \in Racers : RegisterSaveUser(r)
RegisterCreateTokenStep == \E r \in Racers : RegisterCreateToken(r)
RegisterSendEmailStep == \E r \in Racers, mail \in Mail : RegisterSendEmail(r, mail)

(***************************************************************************)
(* Specifications.                                                         *)
(***************************************************************************)
\* Order placement alone.
NextCreate == CreateOrderRequest \/ AwaitRequest

SpecCreate == Init /\ [][NextCreate]_vars

\* The whole order and payment flow.
Next ==
    \/ CreateSampleOrderRequest
    \/ WebhookRequest
    \/ ConfirmRequest
    \/ UpdateStatusRequest
    \/ CancelOrderRequest
    \/ AwaitRequest

Spec == Init /\ [][Next]_vars

\* Two order placements running concurrently.
NextRace ==
    \/ RaceArriveStep
    \/ RaceFindProductStep
    \/ RaceSaveOrderStep
    \/ RaceDecrementStockStep
    \/ RaceSavePaymentStep

SpecRace == Init /\ [][NextRace]_vars

\* The account flow.
NextAuth ==
    \/ RegisterRequest
    \/ LoginRequest
    \/ VerifyEmailRequest
    \/ ResendVerificationRequest
    \/ ForgotPasswordRequest
    \/ ResetPasswordRequest
    \/ UserStatusRequest
    \/ TimePasses
    \/ TokensExpire
    \/ AwaitRequest

SpecAuth == Init /\ [][NextAuth]_vars

\* Two registrations running concurrently.
NextRegisterRace ==
    \/ RegisterArriveStep
    \/ RegisterFindOneStep
    \/ RegisterHashStep
    \/ RegisterSaveUserStep
    \/ RegisterCreateTokenStep
    \/ RegisterSendEmailStep

SpecRegisterRace == Init /\ [][NextRegisterRace]_vars

(***************************************************************************)
(* Vocabulary of the properties.                                           *)
(***************************************************************************)
NoMutation ==
    /\ products = pre.products
    /\ orders = pre.orders
    /\ payments = pre.payments

\* The quantity a list of line items requests of product p in total.
RECURSIVE Requested(_, _, _)
Requested(items, p, n) ==
    IF n = 0 THEN 0
    ELSE Requested(items, p, n - 1) + (IF items[n].product = p THEN items[n].quantity ELSE 0)

\* A line item that, alone, the collection as it was refuses.
Refused(item) ==
    \/ item.product \notin DOMAIN pre.products
    \/ ~pre.products[item.product].isActive
    \/ pre.products[item.product].stock < item.quantity

\* The request persisted an order.
OrderPersisted == req.op = "createOrder" /\ Len(orders) = Len(pre.orders) + 1

\* The signature section 4.4 of the specification describes.
SpecifiedSignature(n) ==
    ToUpperCase(Md5Hex(n.merchant_id \o n.order_id \o n.payhere_amount \o n.payhere_currency
                       \o n.status_code \o ToUpperCase(Md5Hex(merchantSecret))))

\* A webhook request with the specified signature that names an order that
\* existed when it arrived.
VerifiedFor(code) ==
    /\ req.op = "webhook"
    /\ req.body.md5sig = SpecifiedSignature(req.body)
    /\ (code = "success") = (req.body.status_code = <<"2">>)
    /\ OrderExists(pre.orders, req.body.custom_1)

(***************************************************************************)
(* C1.  A createOrder request with a line item whose product does not      *)
(* exist, is inactive or has less stock than requested fails with a        *)
(* validation error (400) and creates no order, no payment record and      *)
(* changes no stock.                                                       *)
(***************************************************************************)
C1_RefusedItemIsValidationError ==
    (req.op = "createOrder"
        /\ \E i \in 1..Len(req.body.products) : Refused(req.body.products[i]))
    => (res.status = 400 /\ NoMutation)

(***************************************************************************)
(* C2.  In every reachable state every product's stock is at least zero.   *)
(***************************************************************************)
C2_StockNeverNegative == \A p \in ProductIds : products[p].stock >= 0

(***************************************************************************)
(* C3.  A createOrder request that goes through lowers the stock of each   *)
(* product by exactly the sum of the quantities its line items request of  *)
(* that product.  Stated of every request that persists an order, which    *)
(* every successful request does.                                          *)
(***************************************************************************)
C3_StockDropsByRequestedSum ==
    OrderPersisted =>
        \A p \in ProductIds :
            pre.products[p].stock - products[p].stock
                = Requested(req.body.products, p, Len(req.body.products))

\* An order was persisted whose line items name one product twice and
\* another product once.
C3_Witness ==
    /\ OrderPersisted
    /\ Len(req.body.products) = 2
    /\ req.body.products[1].product = req.body.products[2].product
    /\ req.body.products[1].quantity = 2
    /\ req.body.products[2].quantity = 2
    /\ products[req.body.products[1].product].stock = MaxStock - 4

(***************************************************************************)
(* C4.  A createOrder request whose line items all pass validation (and    *)
(* that carries an address, a total and the contact fields) completes      *)
(* successfully and leaves a pending order with a pending payment record   *)
(* for it.                                                                 *)
(***************************************************************************)
C4_ValidRequestCreatesOrderAndPayment ==
    (/\ req.op = "createOrder"
     /\ Len(req.body.products) > 0
     /\ \A i \in 1..Len(req.body.products) :
            IsObjectId(req.body.products[i].product) /\ ~Refused(req.body.products[i])
     /\ req.body.shippingAddress # Absent
     /\ req.body.totalAmount # NaN
     /\ req.body.customerPhone # Absent)
    => /\ res.status = 201
       /\ OrderPersisted
       /\ orders[Len(orders)].status = "pending"
       /\ \E i \in 1..Len(payments) :
              payments[i].order = orders[Len(orders)].id /\ payments[i].status = "pending"

(***************************************************************************)
(* C5.  The webhook accepts a notification only when md5sig is exactly     *)
(* the upper-case MD5 hex digest of merchant id, gateway order id, amount, *)
(* currency, status code and the upper-case MD5 hex digest of the merchant *)
(* secret; with any other signature the request is rejected and no order   *)
(* or payment record is created or changed.                                *)
(***************************************************************************)
C5_OnlySpecifiedSignatureAccepted ==
    (req.op = "webhook" /\ req.body.md5sig # SpecifiedSignature(req.body))
    => (res = [status |-> 400, error |-> "Invalid signature"] /\ NoMutation)

\* A notification for an existing order, its signature the specified digest
\* in lower case, was rejected.
C5_Witness ==
    /\ req.op = "webhook"
    /\ OrderExists(pre.orders, req.body.custom_1)
    /\ req.body.md5sig # SpecifiedSignature(req.body)
    /\ ToUpperCase(req.body.md5sig) = SpecifiedSignature(req.body)
    /\ res.status = 400

(***************************************************************************)
(* C6.  After a webhook notification with a valid signature and status     *)
(* code "2" for an existing order, the order is confirmed and there is a   *)
(* payment record of that order with status paid and the notification's    *)
(* payment_id as its transactionId.                                        *)
(***************************************************************************)
C6_SuccessNotificationConfirmsAndPays ==
    VerifiedFor("success")
    => /\ FindOrder(orders, req.body.custom_1).status = "confirmed"
       /\ Len(payments) = Len(pre.payments) + 1
       /\ payments[Len(payments)].order = req.body.custom_1
       /\ payments[Len(payments)].status = "paid"
       /\ payments[Len(payments)].transactionId = req.body.payment_id

\* A success notification arrived for an order that was not yet confirmed.
C6_Witness ==
    /\ VerifiedFor("success")
    /\ FindOrder(pre.orders, req.body.custom_1).status = "cancelled"
    /\ res.status = 200

(***************************************************************************)
(* C7.  After a webhook notification with a valid signature and a status   *)
(* code other than "2" for an existing order, the persisted status of the  *)
(* order is payment_failed.                                                *)
(***************************************************************************)
C7_FailureNotificationMarksOrder ==
    VerifiedFor("failure")
    => FindOrder(orders, req.body.custom_1).status = "payment_failed"

(***************************************************************************)
(* C8.  A webhook notification with a valid signature whose custom_1 does  *)
(* not identify an existing order fails with a not-found error (404) and   *)
(* creates or changes no order, payment or product record.                 *)
(***************************************************************************)
C8_UnknownOrderIsNotFound ==
    (/\ req.op = "webhook"
     /\ req.body.md5sig = SpecifiedSignature(req.body)
     /\ ~OrderExists(pre.orders, req.body.custom_1))
    => (res.status = 404 /\ NoMutation)

(***************************************************************************)
(* C9.  cancelOrder on an order whose status is cancelled or delivered     *)
(* fails and leaves the order's status and every product's stock as they   *)
(* were; cancelling an order twice fails the second time.                  *)
(***************************************************************************)
C9_TerminalOrderNotCancelled ==
    (/\ req.op = "cancelOrder"
     /\ OrderExists(pre.orders, req.id)
     /\ FindOrder(pre.orders, req.id).status \in {"cancelled", "delivered"})
    => /\ res.status >= 400
       /\ orders = pre.orders
       /\ products = pre.products

\* The user who placed an order that is already cancelled asked to cancel
\* it and was refused for its status.
C9_Witness ==
    /\ req.op = "cancelOrder"
    /\ OrderExists(pre.orders, req.id)
    /\ FindOrder(pre.orders, req.id).status = "cancelled"
    /\ req.caller.id = "u1"
    /\ res = [status |-> 400, error |-> "Order is already cancelled"]

(***************************************************************************)
(* C10.  When cancelOrder succeeds on an order that was confirmed or       *)
(* shipped, the order becomes cancelled and the stock of each line item's  *)
(* product is increased by the line item's quantity.                       *)
(***************************************************************************)
C10_CancelRestoresStock ==
    (/\ req.op = "cancelOrder"
     /\ res.status = 200
     /\ FindOrder(pre.orders, req.id).status \in {"confirmed", "shipped"})
    => /\ FindOrder(orders, req.id).status = "cancelled"
       /\ LET items == FindOrder(orders, req.id).products
          IN  \A p \in ProductIds :
                  products[p].stock = pre.products[p].stock + Requested(items, p, Len(items))

(***************************************************************************)
(* C11.  cancelOrder changes an order only when the authenticated caller   *)
(* is an admin or the user the order refers to; for every other caller     *)
(* and every order, guest orders included, the request is refused and the  *)
(* order is unchanged.                                                     *)
(***************************************************************************)
C11_OnlyOwnerOrAdminCancels ==
    (req.op = "cancelOrder" /\ OrderExists(pre.orders, req.id))
    => LET order == FindOrder(pre.orders, req.id)
           entitled == \/ req.caller.role = "admin"
                       \/ (req.caller # Anonymous /\ order.user = req.caller.id)
       IN  ~entitled => (res.status >= 400 /\ orders = pre.orders)

(***************************************************************************)
(* C12.  Every change of an order's status, by whichever operation, moves  *)
(* forward along pending, confirmed, shipped, delivered, or is a change to *)
(* cancelled from a status that is neither delivered nor cancelled.        *)
(***************************************************************************)
StatusRank ==
    [st \in {"pending", "confirmed", "shipped", "delivered"} |->
        CASE st = "pending" -> 1 [] st = "confirmed" -> 2
          [] st = "shipped" -> 3 [] st = "delivered" -> 4]

Forward(from, to) ==
    /\ from \in DOMAIN StatusRank
    /\ to \in DOMAIN StatusRank
    /\ StatusRank[from] < StatusRank[to]

TerminalStatuses == {"delivered", "cancelled"}

C12_StatusMovesForward ==
    \A i \in 1..Len(pre.orders) :
        LET from == pre.orders[i].status
            to == orders[i].status
        IN  from # to => \/ Forward(from, to)
                         \/ (to = "cancelled" /\ from \notin TerminalStatuses)

(***************************************************************************)
(* C13.  Once an order is delivered or cancelled, neither cancelOrder nor  *)
(* the webhook nor confirm changes its status.                             *)
(***************************************************************************)
C13_TerminalStatusIsFinal ==
    req.op \in {"cancelOrder", "webhook", "confirm"}
    => \A i \in 1..Len(pre.orders) :
           pre.orders[i].status \in TerminalStatuses
           => orders[i].status = pre.orders[i].status

(***************************************************************************)
(* C14.  The webhook and confirm update the payment record createOrder     *)
(* left pending rather than add one; after a successful payment outcome    *)
(* the order has a paid record and none that is still pending; and a       *)
(* record that is paid or failed is never changed again.                   *)
(***************************************************************************)
\* The order a successful payment outcome was just reported for, if any.
PaidOrders ==
    IF req.op = "webhook" /\ res.status = 200 /\ req.body.status_code = <<"2">>
    THEN {req.body.custom_1}
    ELSE IF req.op = "confirm" /\ res.status = 200 /\ req.status = "completed"
    THEN {req.orderId}
    ELSE {}

C14_PendingPaymentSettledOnce ==
    /\ req.op \in {"webhook", "confirm"} => Len(payments) = Len(pre.payments)
    /\ \A o \in PaidOrders :
          /\ \E i \in 1..Len(payments) : payments[i].order = o /\ payments[i].status = "paid"
          /\ \A i \in 1..Len(payments) : payments[i].order = o => payments[i].status # "pending"
    /\ \A i \in 1..Len(pre.payments) :
          pre.payments[i].status \in {"paid", "failed"} => payments[i] = pre.payments[i]

(***************************************************************************)
(* C15.  A second delivery of a valid webhook notification (same           *)
(* payment_id, same order) is processed like the first: it adds one more   *)
(* payment record with the same transactionId for that order, and a        *)
(* success notification is answered 200 again.                             *)
(***************************************************************************)
\* The records of the order and transaction the notification names.
RecordsOf(ps, n) ==
    {i \in 1..Len(ps) : ps[i].order = n.custom_1 /\ ps[i].transactionId = n.payment_id}

Redelivered ==
    /\ req.op = "webhook"
    /\ req.body.md5sig = SpecifiedSignature(req.body)
    /\ OrderExists(pre.orders, req.body.custom_1)
    /\ \E i \in RecordsOf(pre.payments, req.body) :
           (pre.payments[i].status = "paid") = (req.body.status_code = <<"2">>)

C15_SecondDeliveryDuplicatesPayment ==
    Redelivered
    => /\ Cardinality(RecordsOf(payments, req.body))
              = Cardinality(RecordsOf(pre.payments, req.body)) + 1
       /\ \A i \in RecordsOf(payments, req.body) :
              payments[i].transactionId = req.body.payment_id
       /\ req.body.status_code = <<"2">> => res.status = 200

\* A success notification was delivered a second time and accepted; the
\* order has two paid records of the one transaction.
C15_Witness ==
    /\ Redelivered
    /\ req.body.status_code = <<"2">>
    /\ res.status = 200
    /\ Cardinality(RecordsOf(payments, req.body)) = 2
    /\ \A i \in RecordsOf(payments, req.body) : payments[i].status = "paid"

(***************************************************************************)
(* C16.  createOrder's three writes (order, stock, payment record) are not *)
(* atomic: when the request passes every check and the order is saved but  *)
(* the payment record is then refused, the request ends in an internal     *)
(* error (500) and the state keeps the new order and the decremented       *)
(* stock, with no payment record for that order.                           *)
(***************************************************************************)
\* The request passes the handler's checks against the collection as it was
\* when it arrived, so the order is saved.
PassesChecks ==
    /\ req.op = "createOrder"
    /\ Len(req.body.products) > 0
    /\ req.body.shippingAddress # Absent
    /\ \A i \in 1..Len(req.body.products) :
           IsObjectId(req.body.products[i].product) /\ ~Refused(req.body.products[i])
    /\ req.body.customerName # Absent
    /\ req.body.customerEmail # Absent
    /\ req.body.customerPhone # Absent
    /\ req.body.totalAmount # NaN

C16_FailedPaymentKeepsOrderAndStock ==
    (PassesChecks /\ "pending" \notin PaymentMethodEnum)
    => /\ res.status = 500
       /\ Len(orders) = Len(pre.orders) + 1
       /\ \A p \in ProductIds :
              products[p].stock = pre.products[p].stock
                                     - Requested(req.body.products, p, Len(req.body.products))
       /\ \A i \in 1..Len(payments) : payments[i].order # orders[Len(orders)].id
       /\ payments = pre.payments

\* A request for two units of a product in stock ended in 500 with the
\* order stored, the stock lowered and no payment record.
C16_Witness ==
    /\ PassesChecks
    /\ res.status = 500
    /\ Len(orders) = Len(pre.orders) + 1
    /\ \E p \in ProductIds : products[p].stock = pre.products[p].stock - 2
    /\ payments = <<>>

(***************************************************************************)
(* C17.  As claimed: when two concurrent createOrder requests for the same *)
(* product both pass the stock check against the same stock and both       *)
(* orders are created, a decrement is lost, the final stock being greater  *)
(* than the initial stock less the two requested quantities.               *)
(* As amended: however two concurrent createOrder requests interleave,     *)
(* once both orders are created and their stock writes are done the stock  *)
(* of every product is its initial stock less the sum of the quantities    *)
(* both requested: no decrement is lost, and the stock can be below zero.  *)
(***************************************************************************)
\* Both requests stored their order and finished their stock writes.
BothOrdersPlaced == \A r \in Racers : inflight[r].pc \in {"savePayment", "done"}
                                        /\ inflight[r].order # Absent

RaceRequested(p) ==
    Requested(inflight["r1"].items, p, Len(inflight["r1"].items))
    + Requested(inflight["r2"].items, p, Len(inflight["r2"].items))

\* Both requests name product p and both read its initial stock when they
\* checked it: neither saw the other's decrement.
RacedOn(p) ==
    \A r \in Racers :
        \E j \in 1..Len(inflight[r].seen) :
            inflight[r].items[j].product = p /\ inflight[r].seen[j] = MaxStock

C17_RacingOrdersLoseDecrement ==
    \A p \in ProductIds :
        (BothOrdersPlaced /\ RacedOn(p)) => products[p].stock > MaxStock - RaceRequested(p)

C17_ConcurrentOrdersDecrementBoth ==
    BothOrdersPlaced
    => \A p \in ProductIds : products[p].stock = MaxStock - RaceRequested(p)

\* Both requests read the full stock of p1, both orders were created, and
\* the stock of p1 went below zero.
C17_Witness ==
    /\ BothOrdersPlaced
    /\ RacedOn("p1")
    /\ products["p1"].stock = MaxStock - RaceRequested("p1")
    /\ products["p1"].stock < 0

(***************************************************************************)
(* C18.  updateStatus accepts a requested status exactly when it is one of *)
(* pending, confirmed, shipped, delivered, cancelled, returned and         *)
(* payment_failed; any other value is rejected with a validation error     *)
(* (400) and the order is unchanged.                                       *)
(***************************************************************************)
\* The status enumeration of section 3 of the specification.
SpecifiedStatusEnum ==
    {"pending", "confirmed", "shipped", "delivered", "cancelled", "returned", "payment_failed"}

AdminUpdateOfExistingOrder ==
    /\ req.op = "updateStatus"
    /\ req.caller.role = "admin"
    /\ OrderExists(pre.orders, req.id)

C18_StatusAcceptedIffInEnum ==
    AdminUpdateOfExistingOrder
    => IF req.status \in SpecifiedStatusEnum
       THEN res.status = 200 /\ FindOrder(orders, req.id).status = req.status
       ELSE res.status = 400 /\ orders = pre.orders

(***************************************************************************)
(* C19.  updateStatus validates no transition: for an existing order in    *)
(* any status and any target status the handler accepts, an admin's        *)
(* request succeeds and sets the order to the target status, backwards and *)
(* out of delivered or cancelled included.                                 *)
(***************************************************************************)
C19_AdminSetsAnyStatus ==
    (AdminUpdateOfExistingOrder /\ req.status \in validStatuses)
    => /\ res.status = 200
       /\ FindOrder(orders, req.id).status = req.status

\* An admin moved a delivered order back to pending.
C19_Witness ==
    /\ AdminUpdateOfExistingOrder
    /\ FindOrder(pre.orders, req.id).status = "delivered"
    /\ req.status = "pending"
    /\ res.status = 200
    /\ FindOrder(orders, req.id).status = "pending"

(***************************************************************************)
(* C20.  A createOrder request without an authenticated identity succeeds  *)
(* only when name, email and phone are all supplied and otherwise fails    *)
(* with no order, payment or stock change; a createOrder request by an     *)
(* authenticated user produces an order whose user reference is that user. *)
(***************************************************************************)
C20_GuestContactOrUserAttached ==
    req.op = "createOrder"
    => /\ (/\ req.caller = Anonymous
           /\ (req.body.customerName = Absent \/ req.body.customerEmail = Absent
                  \/ req.body.customerPhone = Absent))
          => (res.status >= 400 /\ NoMutation)
       /\ (req.caller # Anonymous /\ OrderPersisted)
          => orders[Len(orders)].user = req.caller.id

C23_AcceptedOnlyWithinTotalStock ==
    (req.op = "createOrder" /\ (res.status = 201 \/ OrderPersisted))
    => \A p \in ProductIds :
           Requested(req.body.products, p, Len(req.body.products)) <= pre.products[p].stock

(***************************************************************************)
(* C24.  createOrder never increases a product's stock: after every        *)
(* request, those with zero or negative quantities included, the stock of  *)
(* each product is at most what it was before.                             *)
(***************************************************************************)
C24_CreateOrderNeverAddsStock ==
    req.op = "createOrder"
    => \A p \in ProductIds : products[p].stock <= pre.products[p].stock

(***************************************************************************)
(* C25.  A confirm call never creates or changes a payment record.  With   *)
(* status 'completed' it sets the order to confirmed whatever its status,  *)
(* cancelled and delivered included, with no signature asked for; with any *)
(* other status the order is unchanged.                                    *)
(***************************************************************************)
C25_ConfirmSetsConfirmedOnly ==
    req.op = "confirm"
    => /\ payments = pre.payments
       /\ products = pre.products
       /\ IF req.status = "completed" /\ OrderExists(pre.orders, req.orderId)
          THEN /\ res.status = 200
               /\ orders = SaveOrder(pre.orders,
                                     [FindOrder(pre.orders, req.orderId)
                                         EXCEPT !.status = "confirmed"])
          ELSE orders = pre.orders

\* A completed confirmation turned a cancelled order into a confirmed one.
C25_Witness ==
    /\ req.op = "confirm"
    /\ req.status = "completed"
    /\ OrderExists(pre.orders, req.orderId)
    /\ FindOrder(pre.orders, req.orderId).status = "cancelled"
    /\ FindOrder(orders, req.orderId).status = "confirmed"
    /\ res.status = 200

(***************************************************************************)
(* C22.  No sequence of register requests creates a user whose role is     *)
(* admin: register accepts the roles creator and user only and rejects     *)
(* every other role without creating a user or a token.                    *)
(***************************************************************************)
C22_RegisterNeverCreatesAdmin ==
    /\ \A i \in 1..Len(users) : users[i].role \in {"creator", "user"}
    /\ (req.op = "register" /\ req.body.role \notin {"creator", "user"})
       => /\ res.status \in {400, 403}
          /\ users = pre.users
          /\ tokens = pre.tokens

\* A complete registration as admin was refused.
C22_Witness ==
    /\ req.op = "register"
    /\ req.body.role = "admin"
    /\ req.body.name # Absent /\ req.body.email # Absent /\ req.body.password # Absent
    /\ res = [status |-> 403, error |-> "Cannot register as admin"]
    /\ users = <<>>

(***************************************************************************)
(* C26.  A user created by register is inactive; login issues a token only *)
(* for a user who is active; and a user becomes active only through a      *)
(* verify-email call with an unexpired verification token of that user or  *)
(* through an admin's status change.  So between a registration and the    *)
(* first successful login there is always such a call.                     *)
(***************************************************************************)
C26_LoginOnlyAfterActivation ==
    /\ (req.op = "register" /\ Len(users) = Len(pre.users) + 1)
       => ~users[Len(users)].isActive
    /\ (req.op = "login" /\ res.status = 200)
       => /\ EmailIndex(pre.users, req.email) # {}
          /\ UserWithEmail(pre.users, req.email).isActive
    /\ \A i \in 1..Len(pre.users) :
          (~pre.users[i].isActive /\ users[i].isActive)
          => \/ /\ req.op = "verifyEmail"
                /\ \E t \in pre.tokens :
                       /\ t.token = req.token
                       /\ t.userId = users[i].id
                       /\ t.type = "email_verification"
                       /\ t.expiresAt > clock.now
             \/ /\ req.op = "userStatus"
                /\ req.caller.role = "admin"
                /\ req.id = users[i].id

\* A user whose verification token has been used logged in.
C26_Witness ==
    /\ req.op = "login"
    /\ res.status = 200
    /\ spent # {}
    /\ UserWithEmail(users, req.email).isActive

(***************************************************************************)
(* C27.  Verification and reset tokens are single-use: when verify-email   *)
(* or reset-password succeeds with a token, the token is deleted, and      *)
(* every later call that presents it is rejected as invalid or expired     *)
(* (400) and changes no user.                                              *)
(***************************************************************************)
TokenCalls == {"verifyEmail", "resetPassword"}

C27_TokensAreSingleUse ==
    /\ (req.op \in TokenCalls /\ res.status = 200)
       => \A t \in tokens : t.token # req.token
    /\ (req.op \in TokenCalls /\ req.token \in pre.spent)
       => /\ res.status = 400
          /\ users = pre.users

\* A reset token that had changed a password was presented again, within
\* its hour, and was rejected.
C27_Witness ==
    /\ req.op = "resetPassword"
    /\ req.newPassword # Absent
    /\ req.token \in pre.spent
    /\ clock.now = 0
    /\ \E i \in 1..Len(users) : users[i].password = Hash("pw2")
    /\ res = [status |-> 400, error |-> "Invalid or expired reset token"]

(***************************************************************************)
(* C29.  forgot-password does not reveal whether an email is registered:   *)
(* the response to a request with an email is the same whether or not the  *)
(* email belongs to a user.  For an email that belongs to no user the      *)
(* response is always 200 with the reset-link message, so the response     *)
(* for every email has to be that one.                                     *)
(***************************************************************************)
C29_ForgotPasswordSameResponse ==
    (req.op = "forgotPassword" /\ req.email # Absent)
    => res = [status |-> 200, error |-> ResetLinkMessage]

(***************************************************************************)
(* C28.  In every reachable state no two users have the same email,        *)
(* whatever the sequence and interleaving of register requests.            *)
(***************************************************************************)
C28_EmailsAreUnique ==
    \A i, j \in 1..Len(users) : i # j => users[i].email # users[j].email

====
